---- MODULE Spec2Model ----
\* Model of rank.py: the dictionary rank of a word among the distinct
\* arrangements of its letters, computed twice by the script: the "tidy"
\* factorial table (total_rank) and the "classic" step-by-step enumeration
\* (total_before + 1).
EXTENDS Integers, Sequences, FiniteSets

\* ---------------------------------------------------------------- bounds
MaxLen == 5        \* longest A-Z word entered
NumLetters == 3    \* how many letters of A-Z the entered words draw from
MaxRawLen == 2     \* longest raw text holding symbols other than A-Z

\* ---------------------------------------------------------------- symbols
AZ == <<"A","B","C","D","E","F","G","H","I","J","K","L","M",
        "N","O","P","Q","R","S","T","U","V","W","X","Y","Z">>

LowerAZ == <<"a","b","c","d","e","f","g","h","i","j","k","l","m",
             "n","o","p","q","r","s","t","u","v","w","x","y","z">>

Range(s) == {s[k] : k \in DOMAIN s}

\* code point of a character, the order Python compares one-character strings by
Code(ch) ==
    IF \E k \in DOMAIN AZ : AZ[k] = ch
    THEN 64 + (CHOOSE k \in DOMAIN AZ : AZ[k] = ch)
    ELSE IF \E k \in DOMAIN LowerAZ : LowerAZ[k] = ch
    THEN 96 + (CHOOSE k \in DOMAIN LowerAZ : LowerAZ[k] = ch)
    ELSE IF ch = " " THEN 32
    ELSE IF ch = "!" THEN 33
    ELSE 49

ModelLetters == {AZ[k] : k \in 1..NumLetters}

RawSymbols == ModelLetters \cup {"a", " ", "1", "!"}

SeqsUpTo(S, n) == UNION {[1..m -> S] : m \in 0..n}

\* the texts typed into the input box
Inputs == (SeqsUpTo(ModelLetters, MaxLen) \ {<<>>}) \cup SeqsUpTo(RawSymbols, MaxRawLen)

\* ---------------------------------------------------------------- str helpers
RECURSIVE LStrip(_)
LStrip(s) == IF s # <<>> /\ Head(s) = " " THEN LStrip(Tail(s)) ELSE s

RECURSIVE RStrip(_)
RStrip(s) ==
    IF s # <<>> /\ s[Len(s)] = " " THEN RStrip(SubSeq(s, 1, Len(s) - 1)) ELSE s

Strip(s) == RStrip(LStrip(s))

UpperCh(ch) ==
    IF \E k \in DOMAIN LowerAZ : LowerAZ[k] = ch
    THEN AZ[CHOOSE k \in DOMAIN LowerAZ : LowerAZ[k] = ch]
    ELSE ch

Upper(s) == [k \in DOMAIN s |-> UpperCh(s[k])]

\* mutant: any non-empty text passes
FullMatchAZ_NonEmptyOnly(w) == Len(w) >= 1

\* re.fullmatch(r"[A-Z]+", word)
FullMatchAZ(w) == Len(w) >= 1 /\ \A k \in DOMAIN w : \E a \in DOMAIN AZ : AZ[a] = w[k]

\* ---------------------------------------------------------------- arithmetic
RECURSIVE Factorial(_)
Factorial(n) == IF n <= 1 THEN 1 ELSE n * Factorial(n - 1)

RECURSIVE SumSeq(_)
SumSeq(s) == IF s = <<>> THEN 0 ELSE Head(s) + SumSeq(Tail(s))

RECURSIVE ProdSeq(_)
ProdSeq(s) == IF s = <<>> THEN 1 ELSE Head(s) * ProdSeq(Tail(s))

\* sorted(S) for a set of characters
RECURSIVE SortedSeq(_)
SortedSeq(S) ==
    IF S = {} THEN <<>>
    ELSE LET m == CHOOSE x \in S : \A y \in S : Code(x) <= Code(y)
         IN <<m>> \o SortedSeq(S \ {m})

\* keys of a Counter, in first-occurrence order
RECURSIVE InsertionKeys(_)
InsertionKeys(s) ==
    IF s = <<>> THEN <<>>
    ELSE LET init == SubSeq(s, 1, Len(s) - 1)
             last == s[Len(s)]
         IN IF last \in Range(init) THEN InsertionKeys(init)
            ELSE InsertionKeys(init) \o <<last>>

\* collections.Counter(s)
Counter(s) == [ch \in Range(s) |-> Cardinality({k \in DOMAIN s : s[k] = ch})]

\* letters[i:] for a 0-based i
Slice(ls, i) == SubSeq(ls, i + 1, Len(ls))

SelectGT1(s) == SelectSeq(s, LAMBDA v : v > 1)

\* ---------------------------------------------------------------- tidy method
unique_sorted(ls) == SortedSeq(Range(ls))

letter_to_rank(ls) ==
    [ch \in Range(ls) |-> CHOOSE k \in DOMAIN unique_sorted(ls) : unique_sorted(ls)[k] = ch]

Ranks(ls) == [k \in DOMAIN ls |-> letter_to_rank(ls)[ls[k]]]

\* mutant: counts the larger ranks to the right
SmallerRight_Larger(rk) ==
    [k \in DOMAIN rk |-> Cardinality({j \in (k + 1)..Len(rk) : rk[j] > rk[k]})]

SmallerRight(rk) ==
    [k \in DOMAIN rk |-> Cardinality({j \in (k + 1)..Len(rk) : rk[j] < rk[k]})]

\* counts.values(), in the Counter's key order
CounterValues(s) == [k \in DOMAIN InsertionKeys(s) |-> Counter(s)[InsertionKeys(s)[k]]]

\* the expression "num! / (v! x ...)" as its parts
AdjustedFactorial(ls, i) ==
    LET r_slice == Slice(ls, i)
    IN [num |-> Len(r_slice) - 1, denom_list |-> SelectGT1(CounterValues(r_slice))]

\* mutant: the factorial of the whole slice length
AdjustedValue_OffByOne(ls, i) ==
    LET r_slice == Slice(ls, i)
        vals == CounterValues(r_slice)
    IN Factorial(Len(r_slice)) \div ProdSeq([k \in DOMAIN vals |-> Factorial(vals[k])])

AdjustedValue(ls, i) ==
    LET r_slice == Slice(ls, i)
        num == Len(r_slice) - 1
        vals == CounterValues(r_slice)
    IN Factorial(num) \div ProdSeq([k \in DOMAIN vals |-> Factorial(vals[k])])

AdjustedFactorials(ls) == [k \in DOMAIN ls |-> AdjustedFactorial(ls, k - 1)]

AdjustedValues(ls) == [k \in DOMAIN ls |-> AdjustedValue(ls, k - 1)]

Contributions(ls) ==
    [k \in DOMAIN ls |-> SmallerRight(Ranks(ls))[k] * AdjustedValues(ls)[k]]

TotalRank(ls) == SumSeq(Contributions(ls)) + 1

\* ---------------------------------------------------------------- classic method
\* mutant: letters not larger than the current one
SmallerLetters_Leq(right_slice, current) ==
    SortedSeq({c \in Range(right_slice) : Code(c) <= Code(current)})

SmallerLetters(right_slice, current) ==
    SortedSeq({c \in Range(right_slice) : Code(c) < Code(current)})

\* product of v! over the sorted keys whose count exceeds 1, 1 when there is none
DenominatorValue(cnt) ==
    LET keys == SortedSeq(DOMAIN cnt)
        items == SelectGT1([k \in DOMAIN keys |-> cnt[keys[k]]])
    IN IF items # <<>> THEN ProdSeq([k \in DOMAIN items |-> Factorial(items[k])]) ELSE 1

CommonValue(right_slice) == DenominatorValue(Counter(right_slice))

\* mutant: the working copy is not decremented
Temp_NoDecrement(right_slice, smaller) == Counter(right_slice)

Temp(right_slice, smaller) == [Counter(right_slice) EXCEPT ![smaller] = @ - 1]

ActualValue(right_slice, smaller) == DenominatorValue(Temp(right_slice, smaller))

Factor(common_value, actual_value) ==
    IF actual_value # 0 THEN common_value \div actual_value ELSE 1

\* mutant: divides by the subcase's own denominator
SubcaseCount_OwnDenominator(factor, remaining, common_value) ==
    Factorial(remaining) \div (common_value \div factor)

SubcaseCount(factor, remaining, common_value) ==
    factor * (Factorial(remaining) \div (IF common_value # 0 THEN common_value ELSE 1))

Subcase(right_slice, smaller) ==
    LET remaining == Len(right_slice) - 1
        common_value == CommonValue(right_slice)
        actual_value == ActualValue(right_slice, smaller)
        factor == Factor(common_value, actual_value)
    IN [smaller |-> smaller, remaining |-> remaining, actual_value |-> actual_value,
        factor |-> factor, count |-> SubcaseCount(factor, remaining, common_value)]

Subcases(right_slice, smaller_letters) ==
    [k \in DOMAIN smaller_letters |-> Subcase(right_slice, smaller_letters[k])]

\* mutant: the last subcase is left out of the sum
Subtotal_DropLast(cases) ==
    SumSeq([k \in 1..(Len(cases) - 1) |-> cases[k].count])

Subtotal(cases) == SumSeq([k \in DOMAIN cases |-> cases[k].count])

\* ---------------------------------------------------------------- state
VARIABLES raw, word, pc, message, letters, ranks, smaller_right,
          adjusted_factorials, adjusted_values, contributions, total_rank,
          i, total_before, trace, final_rank

vars == <<raw, word, pc, message, letters, ranks, smaller_right,
          adjusted_factorials, adjusted_values, contributions, total_rank,
          i, total_before, trace, final_rank>>

tidyVars == <<letters, ranks, smaller_right, adjusted_factorials,
              adjusted_values, contributions, total_rank>>

classicVars == <<i, total_before, trace, final_rank>>

Init ==
    /\ raw \in Inputs
    /\ word = <<>>
    /\ pc = "input"
    /\ message = "none"
    /\ letters = <<>>
    /\ ranks = <<>>
    /\ smaller_right = <<>>
    /\ adjusted_factorials = <<>>
    /\ adjusted_values = <<>>
    /\ contributions = <<>>
    /\ total_rank = 0
    /\ i = 0
    /\ total_before = 0
    /\ trace = <<>>
    /\ final_rank = 0

\* word = st.text_input(...).strip().upper()
ReadInput ==
    /\ pc = "input"
    /\ word' = Upper(Strip(raw))
    /\ pc' = "validate"
    /\ UNCHANGED <<raw, message>>
    /\ UNCHANGED tidyVars
    /\ UNCHANGED classicVars

\* if not re.fullmatch(...): warning / elif word: ... / else: info
Validate ==
    /\ pc = "validate"
    /\ IF ~FullMatchAZ(word)
       THEN pc' = "halt" /\ message' = "warning"
       ELSE IF word # <<>>
       THEN pc' = "tidy" /\ message' = message
       ELSE pc' = "halt" /\ message' = "info"
    /\ UNCHANGED <<raw, word>>
    /\ UNCHANGED tidyVars
    /\ UNCHANGED classicVars

\* the tidy factorial table and its rank
TidyTable ==
    /\ pc = "tidy"
    /\ letters' = word
    /\ ranks' = Ranks(word)
    /\ smaller_right' = SmallerRight(Ranks(word))
    /\ adjusted_factorials' = AdjustedFactorials(word)
    /\ adjusted_values' = AdjustedValues(word)
    /\ contributions' = Contributions(word)
    /\ total_rank' = TotalRank(word)
    /\ pc' = "classic"
    /\ UNCHANGED <<raw, word, message>>
    /\ UNCHANGED classicVars

\* one iteration of the classic loop that ends in `continue`
ClassicNoSmaller ==
    /\ pc = "classic"
    /\ i < Len(letters)
    /\ LET current == letters[i + 1]
           right_slice == Slice(letters, i)
           smaller_letters == SmallerLetters(right_slice, current)
       IN /\ smaller_letters = <<>>
          /\ trace' = Append(trace,
                 [current |-> current, counts |-> Counter(right_slice),
                  common_value |-> CommonValue(right_slice),
                  smaller_letters |-> smaller_letters,
                  subcases |-> <<>>, subtotal |-> 0])
    /\ i' = i + 1
    /\ UNCHANGED <<raw, word, pc, message, total_before, final_rank>>
    /\ UNCHANGED tidyVars

\* one iteration of the classic loop with its subcases
ClassicStep ==
    /\ pc = "classic"
    /\ i < Len(letters)
    /\ LET current == letters[i + 1]
           right_slice == Slice(letters, i)
           smaller_letters == SmallerLetters(right_slice, current)
           cases == Subcases(right_slice, smaller_letters)
           subtotal == Subtotal(cases)
       IN /\ smaller_letters # <<>>
          /\ trace' = Append(trace,
                 [current |-> current, counts |-> Counter(right_slice),
                  common_value |-> CommonValue(right_slice),
                  smaller_letters |-> smaller_letters,
                  subcases |-> cases, subtotal |-> subtotal])
          /\ total_before' = total_before + subtotal
    /\ i' = i + 1
    /\ UNCHANGED <<raw, word, pc, message, final_rank>>
    /\ UNCHANGED tidyVars

\* Rank = total_before + 1
Summary ==
    /\ pc = "classic"
    /\ i >= Len(letters)
    /\ final_rank' = total_before + 1
    /\ pc' = "done"
    /\ UNCHANGED <<raw, word, message, i, total_before, trace>>
    /\ UNCHANGED tidyVars

Next ==
    \/ ReadInput
    \/ Validate
    \/ TidyTable
    \/ ClassicNoSmaller
    \/ ClassicStep
    \/ Summary

Spec == Init /\ [][Next]_vars

\* ---------------------------------------------------------------- reference notions
\* number of occurrences of s in Suffix(k), k the 1-based position
Occ(w, k, s) == Cardinality({j \in k..Len(w) : w[j] = s})

\* number of positions right of k whose letter precedes w[k]
SmallerToRight(w, k) == Cardinality({j \in (k + 1)..Len(w) : Code(w[j]) < Code(w[k])})

AllDistinct(w) == \A a, b \in DOMAIN w : a # b => w[a] # w[b]

HasRepeat(w) == ~AllDistinct(w)

InvalidWord(w) == Len(w) = 0 \/ \E k \in DOMAIN w : w[k] \notin Range(AZ)

Arrangements(w) ==
    {v \in [DOMAIN w -> Range(w)] : \A c \in Range(w) : Occ(v, 1, c) = Occ(w, 1, c)}

LexLess(v, w) ==
    \E k \in DOMAIN w : Code(v[k]) < Code(w[k]) /\ \A j \in 1..(k - 1) : v[j] = w[j]

DictionaryRank(w) == 1 + Cardinality({v \in Arrangements(w) : LexLess(v, w)})

SwapAdjacent(w, k) == [w EXCEPT ![k] = w[k + 1], ![k + 1] = w[k]]

\* product, over the letters in S, of f! for the frequencies of Suffix(k)
\* once one s is taken out
RECURSIVE DecrementedProduct(_, _, _, _)
DecrementedProduct(S, w, k, s) ==
    IF S = {} THEN 1
    ELSE LET c == CHOOSE x \in S : TRUE
         IN Factorial(Occ(w, k, c) - (IF c = s THEN 1 ELSE 0))
               * DecrementedProduct(S \ {c}, w, k, s)

DecrementedDenominator(w, k, s) == DecrementedProduct({w[j] : j \in k..Len(w)}, w, k, s)

Finished == pc = "done"

\* ---------------------------------------------------------------- claims
\* C1: for every valid word the tidy rank (1 + sum of contributions) equals
\* the classic rank (total_before + 1).
C1_RanksAgree == Finished => total_rank = final_rank

C1_Witness ==
    /\ Finished
    /\ total_rank = final_rank
    /\ \E k \in DOMAIN trace : \E c \in DOMAIN trace[k].subcases :
          trace[k].subcases[c].factor > 1 /\ trace[k].common_value > 2

\* C2: for every valid word, repeated letters included, total_rank is the
\* 1-based position of the word in the ascending list of the distinct
\* arrangements of its letters.
C2_RankIsDictionaryRank == Finished => total_rank = DictionaryRank(word)

\* C3: at every position the tidy contribution equals the classic subtotal,
\* the sum of that position's subcase counts (0 when there is no subcase).
C3_PositionwiseAgree ==
    \A k \in DOMAIN trace :
        /\ contributions[k] = trace[k].subtotal
        /\ trace[k].subtotal =
              SumSeq([c \in DOMAIN trace[k].subcases |-> trace[k].subcases[c].count])

C3_Witness ==
    /\ Finished
    /\ \E k \in DOMAIN trace :
          /\ Len(trace[k].subcases) >= 2
          /\ contributions[k] = trace[k].subtotal
    /\ \E k \in DOMAIN trace : trace[k].subcases = <<>> /\ contributions[k] = 0

\* C4: for a word of pairwise distinct letters every adjusted coefficient has
\* denominator 1 and total_rank is 1 + sum of smaller_right(i) x (n-i-1)!.
C4_DistinctIsFactorialRank ==
    (total_rank # 0 /\ AllDistinct(word)) =>
        /\ \A k \in DOMAIN word :
              /\ adjusted_factorials[k].denom_list = <<>>
              /\ adjusted_values[k] = Factorial(Len(word) - k)
        /\ total_rank =
              1 + SumSeq([k \in DOMAIN word |->
                            SmallerToRight(word, k) * Factorial(Len(word) - k)])

C4_Witness ==
    /\ Finished
    /\ AllDistinct(word)
    /\ Len(word) = 3
    /\ total_rank = 6

\* C5: two different words that are rearrangements of the same letters
\* never have the same total_rank.
C5_RankIsInjective ==
    Finished => \A v \in Arrangements(word) : v # word => TotalRank(v) # total_rank

\* C6 (as amended): swapping adjacent positions whose left letter has the
\* strictly lower rank strictly increases total_rank; swapping adjacent
\* positions whose left letter has the strictly higher rank strictly
\* decreases it.
C6_SwapMonotone ==
    Finished =>
        \A k \in 1..(Len(word) - 1) :
            /\ ranks[k] < ranks[k + 1] => TotalRank(SwapAdjacent(word, k)) > total_rank
            /\ ranks[k] > ranks[k + 1] => TotalRank(SwapAdjacent(word, k)) < total_rank

C6_Witness ==
    /\ Finished
    /\ HasRepeat(word)
    /\ \E k \in 1..(Len(word) - 1) :
          ranks[k] < ranks[k + 1] /\ TotalRank(SwapAdjacent(word, k)) > total_rank
    /\ \E k \in 1..(Len(word) - 1) :
          ranks[k] > ranks[k + 1] /\ TotalRank(SwapAdjacent(word, k)) < total_rank

\* C6 (as stated): swapping adjacent positions whose left letter has the
\* strictly lower rank strictly decreases total_rank, and the reverse swap
\* strictly increases it.
C6_SwapMonotoneAsStated ==
    Finished =>
        \A k \in 1..(Len(word) - 1) :
            /\ ranks[k] < ranks[k + 1] => TotalRank(SwapAdjacent(word, k)) < total_rank
            /\ ranks[k] > ranks[k + 1] => TotalRank(SwapAdjacent(word, k)) > total_rank

\* C7: when the word is empty or holds a symbol outside A-Z the run ends
\* with the invalid-input outcome and nothing is computed: no position
\* record, contribution, subtotal or rank.
C7_InvalidInputComputesNothing ==
    (pc \notin {"input", "validate"} /\ InvalidWord(word)) =>
        /\ pc = "halt"
        /\ message = "warning"
        /\ letters = <<>> /\ ranks = <<>> /\ smaller_right = <<>>
        /\ adjusted_factorials = <<>> /\ adjusted_values = <<>>
        /\ contributions = <<>> /\ total_rank = 0
        /\ trace = <<>> /\ total_before = 0 /\ final_rank = 0

C7_Witness ==
    /\ pc = "halt"
    /\ message = "warning"
    /\ Len(word) = 2
    /\ word[1] \in Range(AZ)
    /\ word[2] \in {"1", "!"}
    /\ total_rank = 0 /\ trace = <<>>

\* C8: every subcase count equals (n-i-1)! divided by the product of f! over
\* the frequencies of Suffix(i) after the subcase's letter is decremented.
C8_CountIsArrangementCount ==
    \A k \in DOMAIN trace : \A c \in DOMAIN trace[k].subcases :
        trace[k].subcases[c].count
              * DecrementedDenominator(word, k, trace[k].subcases[c].smaller)
           = Factorial(Len(word) - k)

\* C9: at every position the occurrences in Suffix(i) of the distinct smaller
\* letters add up to smaller_right(i), and the set of smaller letters is
\* empty exactly when smaller_right(i) = 0.
C9_OccurrencesSumToSmallerRight ==
    \A k \in DOMAIN trace :
        /\ SumSeq([c \in DOMAIN trace[k].smaller_letters |->
                      Occ(word, k, trace[k].smaller_letters[c])]) = smaller_right[k]
        /\ (trace[k].smaller_letters = <<>>) <=> (smaller_right[k] = 0)

C9_Witness ==
    /\ Finished
    /\ \E k \in DOMAIN trace :
          /\ Len(trace[k].smaller_letters) >= 2
          /\ smaller_right[k] > Len(trace[k].smaller_letters)
    /\ \E k \in DOMAIN trace : trace[k].smaller_letters = <<>> /\ smaller_right[k] = 0

\* C10: for every subcase the common denominator is an exact multiple of the
\* subcase's own denominator, and the quotient (the factor) is the number of
\* occurrences of the subcase's letter in Suffix(i).
C10_FactorIsOccurrences ==
    \A k \in DOMAIN trace : \A c \in DOMAIN trace[k].subcases :
        LET case == trace[k].subcases[c]
        IN /\ trace[k].common_value % case.actual_value = 0
           /\ case.factor * case.actual_value = trace[k].common_value
           /\ case.factor = Occ(word, k, case.smaller)

C10_Witness ==
    /\ Finished
    /\ \E k \in DOMAIN trace : \E c \in DOMAIN trace[k].subcases :
          /\ trace[k].subcases[c].factor >= 2
          /\ trace[k].subcases[c].actual_value >= 2
          /\ trace[k].subcases[c].factor = Occ(word, k, trace[k].subcases[c].smaller)

====
